---- MODULE Spec2Model ----
(***************************************************************************)
(* Model of keyboard_mapping_util.py: the zone table ZONE_TO_KEY, the      *)
(* lookup get_key_label, the generator generate_keyboard_layout_code and   *)
(* the report printed when the file is run as a script.                    *)
(*                                                                         *)
(* A Python str is modelled as the sequence of its Unicode code points,    *)
(* a dict as the sequence of its <<key, value>> items in insertion order   *)
(* (keys pairwise distinct), and standard output as the sequence of the    *)
(* lines written to it.                                                    *)
(***************************************************************************)
EXTENDS Integers, Sequences, FiniteSets, TLC

\* ------------------------------------------------------------------ dict

\* k in d
DictHas(d, k) == \E i \in 1..Len(d) : d[i][1] = k

\* d[k] = v: an existing key keeps its position and takes the new value, a
\* new key is appended.
DictSet(d, k, v) ==
    IF DictHas(d, k)
    THEN [i \in 1..Len(d) |-> IF d[i][1] = k THEN <<k, v>> ELSE d[i]]
    ELSE Append(d, <<k, v>>)

\* The dict a display { k1: v1, k2: v2, ... } evaluates to: the items are
\* stored left to right, so each key sits where it first occurs and holds
\* the value of its last occurrence.
DictDisplay(items) ==
    LET first == {i \in 1..Len(items) :
                     \A j \in 1..(i - 1) : items[j][1] # items[i][1]}
        nth(n) == CHOOSE i \in first : Cardinality({j \in first : j < i}) = n - 1
        last(k) == CHOOSE i \in 1..Len(items) :
                      /\ items[i][1] = k
                      /\ \A j \in (i + 1)..Len(items) : items[j][1] # k
    IN [n \in 1..Cardinality(first) |->
           <<items[nth(n)][1], items[last(items[nth(n)][1])][2]>>]

\* d.get(k, default)
DictGet(d, k, default) ==
    IF DictHas(d, k)
    THEN (CHOOSE it \in {d[i] : i \in 1..Len(d)} : it[1] = k)[2]
    ELSE default

\* ------------------------------------------------------------------ text

\* str(n) of an int n, as the f-string fields {zone_id}, {zone} and
\* {len(...)} format it: decimal digits, a leading "-" when negative.
RECURSIVE Digits(_)
Digits(n) ==
    IF n < 10 THEN <<48 + n>>
    ELSE Append(Digits(n \div 10), 48 + (n % 10))

\* IntStr with the sign lost (the digits of abs(n))
IntStr_abs(n) == Digits(IF n < 0 THEN 0 - n ELSE n)

IntStr(n) == IF n < 0 THEN <<45>> \o Digits(0 - n) ELSE Digits(n)

\* "\n"
NL == 10

\* "\n".join(lines[a], ..., lines[b]), for a <= b
RECURSIVE JoinRange(_, _, _)
JoinRange(lines, a, b) ==
    IF a = b THEN lines[a]
    ELSE LET m == (a + b) \div 2
         IN JoinRange(lines, a, m) \o <<NL>> \o JoinRange(lines, m + 1, b)

\* "\n".join(lines)
Join(lines) == IF Len(lines) = 0 THEN <<>> ELSE JoinRange(lines, 1, Len(lines))

\* The lines of text: the pieces between its newlines
SplitLines(text) ==
    LET P == {i \in 1..Len(text) : text[i] = NL}
        n == Cardinality(P)
        nl(k) == CHOOSE i \in P : Cardinality({j \in P : j < i}) = k - 1
        from(k) == IF k = 1 THEN 1 ELSE nl(k - 1) + 1
        to(k) == IF k = n + 1 THEN Len(text) ELSE nl(k) - 1
    IN [k \in 1..(n + 1) |-> SubSeq(text, from(k), to(k))]

\* needle in hay (substring test)
Contains(hay, needle) ==
    \E i \in 0..(Len(hay) - Len(needle)) :
        SubSeq(hay, i + 1, i + Len(needle)) = needle

\* ----------------------------------------------------------- zone table

\* The items of the dict display, in source order; each label is followed
\* by the source text it spells.
ZoneDisplay == <<
    <<0, <<76, 101, 102, 116, 32, 67, 116, 114, 108>>>>,  \* 0: "Left Ctrl"
    <<1, <<85, 110, 117, 115, 101, 100, 47, 85, 110, 107, 110, 111, 119, 110>>>>,  \* 1: "Unused/Unknown"
    <<2, <<70, 110>>>>,  \* 2: "Fn"
    <<3, <<76, 101, 102, 116, 32, 87, 105, 110, 100, 111, 119, 115>>>>,  \* 3: "Left Windows"
    <<4, <<76, 101, 102, 116, 32, 65, 108, 116>>>>,  \* 4: "Left Alt"
    <<5, <<85, 110, 117, 115, 101, 100, 47, 85, 110, 107, 110, 111, 119, 110>>>>,  \* 5: "Unused/Unknown"
    <<6, <<85, 110, 117, 115, 101, 100, 47, 85, 110, 107, 110, 111, 119, 110>>>>,  \* 6: "Unused/Unknown"
    <<7, <<83, 112, 97, 99, 101>>>>,  \* 7: "Space"
    <<8, <<85, 110, 117, 115, 101, 100, 47, 85, 110, 107, 110, 111, 119, 110>>>>,  \* 8: "Unused/Unknown"
    <<9, <<85, 110, 117, 115, 101, 100, 47, 85, 110, 107, 110, 111, 119, 110>>>>,  \* 9: "Unused/Unknown"
    <<10, <<82, 105, 103, 104, 116, 32, 65, 108, 116>>>>,  \* 10: "Right Alt"
    <<11, <<85, 110, 117, 115, 101, 100, 47, 85, 110, 107, 110, 111, 119, 110>>>>,  \* 11: "Unused/Unknown"
    <<12, <<82, 105, 103, 104, 116, 32, 67, 116, 114, 108>>>>,  \* 12: "Right Ctrl"
    <<13, <<76, 101, 102, 116, 32, 65, 114, 114, 111, 119>>>>,  \* 13: "Left Arrow"
    <<14, <<85, 112, 32, 65, 114, 114, 111, 119>>>>,  \* 14: "Up Arrow"
    <<15, <<82, 105, 103, 104, 116, 32, 65, 114, 114, 111, 119>>>>,  \* 15: "Right Arrow"
    <<16, <<78, 117, 109, 112, 97, 100, 32, 48>>>>,  \* 16: "Numpad 0"
    <<17, <<78, 117, 109, 112, 97, 100, 32, 44>>>>,  \* 17: "Numpad ,"
    <<18, <<68, 111, 119, 110, 32, 65, 114, 114, 111, 119>>>>,  \* 18: "Down Arrow"
    <<19, <<85, 110, 117, 115, 101, 100, 47, 85, 110, 107, 110, 111, 119, 110>>>>,  \* 19: "Unused/Unknown"
    <<20, <<85, 110, 117, 115, 101, 100, 47, 85, 110, 107, 110, 111, 119, 110>>>>,  \* 20: "Unused/Unknown"
    <<21, <<85, 110, 117, 115, 101, 100, 47, 85, 110, 107, 110, 111, 119, 110>>>>,  \* 21: "Unused/Unknown"
    <<22, <<76, 101, 102, 116, 32, 83, 104, 105, 102, 116>>>>,  \* 22: "Left Shift"
    <<23, <<60>>>>,  \* 23: "<"
    <<24, <<121>>>>,  \* 24: "y"
    <<25, <<120>>>>,  \* 25: "x"
    <<26, <<99>>>>,  \* 26: "c"
    <<27, <<118>>>>,  \* 27: "v"
    <<28, <<98>>>>,  \* 28: "b"
    <<29, <<110>>>>,  \* 29: "n"
    <<30, <<109>>>>,  \* 30: "m"
    <<31, <<44>>>>,  \* 31: ","
    <<32, <<46>>>>,  \* 32: "."
    <<33, <<45>>>>,  \* 33: "-"
    <<34, <<85, 110, 117, 115, 101, 100, 47, 85, 110, 107, 110, 111, 119, 110>>>>,  \* 34: "Unused/Unknown"
    <<35, <<82, 105, 103, 104, 116, 32, 83, 104, 105, 102, 116>>>>,  \* 35: "Right Shift"
    <<36, <<78, 117, 109, 112, 97, 100, 32, 49>>>>,  \* 36: "Numpad 1"
    <<37, <<78, 117, 109, 112, 97, 100, 32, 50>>>>,  \* 37: "Numpad 2"
    <<38, <<78, 117, 109, 112, 97, 100, 32, 51>>>>,  \* 38: "Numpad 3"
    <<39, <<78, 117, 109, 112, 97, 100, 32, 69, 110, 116, 101, 114>>>>,  \* 39: "Numpad Enter"
    <<40, <<85, 110, 117, 115, 101, 100, 47, 85, 110, 107, 110, 111, 119, 110>>>>,  \* 40: "Unused/Unknown"
    <<41, <<85, 110, 117, 115, 101, 100, 47, 85, 110, 107, 110, 111, 119, 110>>>>,  \* 41: "Unused/Unknown"
    <<42, <<67, 97, 112, 115, 32, 76, 111, 99, 107>>>>,  \* 42: "Caps Lock"
    <<43, <<85, 110, 117, 115, 101, 100, 47, 85, 110, 107, 110, 111, 119, 110>>>>,  \* 43: "Unused/Unknown"
    <<44, <<97>>>>,  \* 44: "a"
    <<45, <<115>>>>,  \* 45: "s"
    <<46, <<100>>>>,  \* 46: "d"
    <<47, <<102>>>>,  \* 47: "f"
    <<48, <<103>>>>,  \* 48: "g"
    <<49, <<104>>>>,  \* 49: "h"
    <<50, <<106>>>>,  \* 50: "j"
    <<51, <<107>>>>,  \* 51: "k"
    <<52, <<108>>>>,  \* 52: "l"
    <<53, <<246>>>>,  \* 53: "ö"
    <<54, <<228>>>>,  \* 54: "ä"
    <<55, <<35>>>>,  \* 55: "#"
    <<56, <<85, 110, 117, 115, 101, 100, 47, 85, 110, 107, 110, 111, 119, 110>>>>,  \* 56: "Unused/Unknown"
    <<57, <<78, 117, 109, 112, 97, 100, 32, 52>>>>,  \* 57: "Numpad 4"
    <<58, <<78, 117, 109, 112, 97, 100, 32, 53>>>>,  \* 58: "Numpad 5"
    <<59, <<78, 117, 109, 112, 97, 100, 32, 54>>>>,  \* 59: "Numpad 6"
    <<60, <<85, 110, 117, 115, 101, 100, 47, 85, 110, 107, 110, 111, 119, 110>>>>,  \* 60: "Unused/Unknown"
    <<61, <<85, 110, 117, 115, 101, 100, 47, 85, 110, 107, 110, 111, 119, 110>>>>,  \* 61: "Unused/Unknown"
    <<62, <<85, 110, 117, 115, 101, 100, 47, 85, 110, 107, 110, 111, 119, 110>>>>,  \* 62: "Unused/Unknown"
    <<63, <<84, 97, 98>>>>,  \* 63: "Tab"
    <<64, <<85, 110, 117, 115, 101, 100, 47, 85, 110, 107, 110, 111, 119, 110>>>>,  \* 64: "Unused/Unknown"
    <<65, <<113>>>>,  \* 65: "q"
    <<66, <<119>>>>,  \* 66: "w"
    <<67, <<101>>>>,  \* 67: "e"
    <<68, <<114>>>>,  \* 68: "r"
    <<69, <<116>>>>,  \* 69: "t"
    <<70, <<122>>>>,  \* 70: "z"
    <<71, <<117>>>>,  \* 71: "u"
    <<72, <<105>>>>,  \* 72: "i"
    <<73, <<111>>>>,  \* 73: "o"
    <<74, <<112>>>>,  \* 74: "p"
    <<75, <<252>>>>,  \* 75: "ü"
    <<76, <<43>>>>,  \* 76: "+"
    <<77, <<69, 110, 116, 101, 114>>>>,  \* 77: "Enter"
    <<78, <<78, 117, 109, 112, 97, 100, 32, 55>>>>,  \* 78: "Numpad 7"
    <<79, <<78, 117, 109, 112, 97, 100, 32, 56>>>>,  \* 79: "Numpad 8"
    <<80, <<78, 117, 109, 112, 97, 100, 32, 57>>>>,  \* 80: "Numpad 9"
    <<81, <<78, 117, 109, 112, 97, 100, 32, 43>>>>,  \* 81: "Numpad +"
    <<82, <<85, 110, 117, 115, 101, 100, 47, 85, 110, 107, 110, 111, 119, 110>>>>,  \* 82: "Unused/Unknown"
    <<83, <<85, 110, 117, 115, 101, 100, 47, 85, 110, 107, 110, 111, 119, 110>>>>,  \* 83: "Unused/Unknown"
    <<84, <<94>>>>,  \* 84: "^"
    <<85, <<49>>>>,  \* 85: "1"
    <<86, <<50>>>>,  \* 86: "2"
    <<87, <<51>>>>,  \* 87: "3"
    <<88, <<52>>>>,  \* 88: "4"
    <<89, <<53>>>>,  \* 89: "5"
    <<90, <<54>>>>,  \* 90: "6"
    <<91, <<55>>>>,  \* 91: "7"
    <<92, <<56>>>>,  \* 92: "8"
    <<93, <<57>>>>,  \* 93: "9"
    <<94, <<48>>>>,  \* 94: "0"
    <<95, <<223>>>>,  \* 95: "ß"
    <<96, <<39>>>>,  \* 96: "'"
    <<97, <<85, 110, 117, 115, 101, 100, 47, 85, 110, 107, 110, 111, 119, 110>>>>,  \* 97: "Unused/Unknown"
    <<98, <<66, 97, 99, 107, 115, 112, 97, 99, 101>>>>,  \* 98: "Backspace"
    <<99, <<78, 117, 109, 32, 76, 111, 99, 107>>>>,  \* 99: "Num Lock"
    <<100, <<78, 117, 109, 112, 97, 100, 32, 47>>>>,  \* 100: "Numpad /"
    <<101, <<78, 117, 109, 112, 97, 100, 32, 42>>>>,  \* 101: "Numpad *"
    <<102, <<78, 117, 109, 112, 97, 100, 32, 45>>>>,  \* 102: "Numpad -"
    <<103, <<85, 110, 117, 115, 101, 100, 47, 85, 110, 107, 110, 111, 119, 110>>>>,  \* 103: "Unused/Unknown"
    <<104, <<85, 110, 117, 115, 101, 100, 47, 85, 110, 107, 110, 111, 119, 110>>>>,  \* 104: "Unused/Unknown"
    <<105, <<69, 115, 99>>>>,  \* 105: "Esc"
    <<106, <<70, 49>>>>,  \* 106: "F1"
    <<107, <<70, 50>>>>,  \* 107: "F2"
    <<108, <<70, 51>>>>,  \* 108: "F3"
    <<109, <<70, 52>>>>,  \* 109: "F4"
    <<110, <<70, 53>>>>,  \* 110: "F5"
    <<111, <<70, 54>>>>,  \* 111: "F6"
    <<112, <<70, 55>>>>,  \* 112: "F7"
    <<113, <<70, 56>>>>,  \* 113: "F8"
    <<114, <<70, 57>>>>,  \* 114: "F9"
    <<115, <<70, 49, 48>>>>,  \* 115: "F10"
    <<116, <<70, 49, 49>>>>,  \* 116: "F11"
    <<117, <<70, 49, 50>>>>,  \* 117: "F12"
    <<118, <<80, 114, 105, 110, 116, 32, 83, 99, 114, 101, 101, 110>>>>,  \* 118: "Print Screen"
    <<119, <<73, 110, 115, 101, 114, 116>>>>,  \* 119: "Insert"
    <<120, <<68, 101, 108, 101, 116, 101>>>>,  \* 120: "Delete"
    <<121, <<72, 111, 109, 101>>>>,  \* 121: "Home"
    <<122, <<69, 110, 100>>>>,  \* 122: "End"
    <<123, <<80, 97, 103, 101, 32, 85, 112>>>>,  \* 123: "Page Up"
    <<124, <<80, 97, 103, 101, 32, 68, 111, 119, 110>>>>,  \* 124: "Page Down"
    <<125, <<85, 110, 117, 115, 101, 100, 47, 85, 110, 107, 110, 111, 119, 110>>>>  \* 125: "Unused/Unknown"
>>

\* The table with the last key mistyped as 124: a repeated key
ZONE_TO_KEY_dupkey ==
    DictDisplay([ZoneDisplay EXCEPT ![Len(ZoneDisplay)] = <<124, @[2]>>])

ZONE_TO_KEY == DictDisplay(ZoneDisplay)

\* "Zone "
ZonePrefix == <<90, 111, 110, 101, 32>>

\* get_key_label looking up the following zone (zone ids taken as 1-based)
get_key_label_next(tbl, zone_id) ==
    DictGet(tbl, zone_id + 1, ZonePrefix \o IntStr(zone_id))

\* get_key_label looking up str(zone_id), which is never a key of the
\* table: the fallback is all it returns
get_key_label_strkey(tbl, zone_id) == ZonePrefix \o IntStr(zone_id)

\* get_key_label(zone_id), reading the module global tbl
get_key_label(tbl, zone_id) == DictGet(tbl, zone_id, ZonePrefix \o IntStr(zone_id))

\* ------------------------------------------------------------ generator

\* the generator's bound taken from the size of the table
GenRange_len == Len(ZoneDisplay)

\* range(18)
GenRange == 18

\* '  zoneId = currentZone++;'
AssignLine ==
    <<32, 32, 122, 111, 110, 101, 73, 100, 32, 61, 32, 99, 117, 114, 114,
      101, 110, 116, 90, 111, 110, 101, 43, 43, 59>>

\* '  createKeyButton( zoneId, "{key_label}", row, col );'
ButtonLine(key_label) ==
    <<32, 32, 99, 114, 101, 97, 116, 101, 75, 101, 121, 66, 117, 116, 116,
      111, 110, 40, 32, 122, 111, 110, 101, 73, 100, 44, 32, 34>>
    \o key_label
    \o <<34, 44, 32, 114, 111, 119, 44, 32, 99, 111, 108, 32, 41, 59>>

\* code_lines with the label of zone + 1 looked up for zone
code_lines_from1(tbl, n) ==
    [i \in 1..(2 * n) |->
        IF i % 2 = 1 THEN AssignLine
        ELSE ButtonLine(get_key_label(tbl, i \div 2))]

\* code_lines with the two appends of a pass in the other order
code_lines_swapped(tbl, n) ==
    [i \in 1..(2 * n) |->
        IF i % 2 = 0 THEN AssignLine
        ELSE ButtonLine(get_key_label(tbl, i \div 2))]

\* code_lines after the loop has run for zone = 0 .. n-1: two lines a zone
code_lines(tbl, n) ==
    [i \in 1..(2 * n) |->
        IF i % 2 = 1 THEN AssignLine
        ELSE ButtonLine(get_key_label(tbl, (i \div 2) - 1))]

generate_keyboard_layout_code(tbl) == Join(code_lines(tbl, GenRange))

\* --------------------------------------------------------------- report

\* "Tuxedo Keyboard Zone Mappings (German QWERTZ Layout):"
TitleLine ==
    <<84, 117, 120, 101, 100, 111, 32, 75, 101, 121, 98, 111, 97, 114, 100,
      32, 90, 111, 110, 101, 32, 77, 97, 112, 112, 105, 110, 103, 115, 32,
      40, 71, 101, 114, 109, 97, 110, 32, 81, 87, 69, 82, 84, 90, 32, 76,
      97, 121, 111, 117, 116, 41, 58>>

\* "Note: Y and Z positions are swapped compared to US QWERTY"
NoteLine ==
    <<78, 111, 116, 101, 58, 32, 89, 32, 97, 110, 100, 32, 90, 32, 112, 111,
      115, 105, 116, 105, 111, 110, 115, 32, 97, 114, 101, 32, 115, 119, 97,
      112, 112, 101, 100, 32, 99, 111, 109, 112, 97, 114, 101, 100, 32, 116,
      111, 32, 85, 83, 32, 81, 87, 69, 82, 84, 89>>

\* f"  Zone {zone}: {key}"
EntryLine(zone, key) ==
    <<32, 32, 90, 111, 110, 101, 32>> \o IntStr(zone) \o <<58, 32>> \o key

\* f"\nTotal mapped zones: {len(ZONE_TO_KEY)}"
TotalText(tbl) ==
    <<NL, 84, 111, 116, 97, 108, 32, 109, 97, 112, 112, 101, 100, 32, 122,
      111, 110, 101, 115, 58, 32>> \o IntStr(Len(tbl))

\* 'Unused'
UnusedWord == <<85, 110, 117, 115, 101, 100>>

\* UnusedCount searching for the lower-case word 'unused'
UnusedCount_lower(tbl) ==
    Cardinality({i \in 1..Len(tbl) :
        Contains(tbl[i][2], <<117, 110, 117, 115, 101, 100>>)})

\* sum(1 for k, v in ZONE_TO_KEY.items() if 'Unused' in v)
UnusedCount(tbl) ==
    Cardinality({i \in 1..Len(tbl) : Contains(tbl[i][2], UnusedWord)})

\* f"Unused zones: {sum(...)}"
UnusedText(tbl) ==
    <<85, 110, 117, 115, 101, 100, 32, 122, 111, 110, 101, 115, 58, 32>>
    \o IntStr(UnusedCount(tbl))

\* ---------------------------------------------------------------- state

VARIABLES
    name,      \* __name__: "__main__" when run as a script, else the module name
    table,     \* the module global ZONE_TO_KEY
    pc,        \* position in the script body (the report), or "imported"
    it,        \* number of items the report's for loop has consumed
    stdout,    \* the lines written to standard output, each ended by its newline
    lastCall,  \* <<zone_id, result>> of the latest get_key_label call, <<>> before any
    genRet     \* <<result>> of the latest generate_keyboard_layout_code call, <<>> before any

vars == <<name, table, pc, it, stdout, lastCall, genRet>>

\* Arguments tried for get_key_label: every key of the table, NegSpan
\* integers below the smallest key, OverSpan above the largest, and FarZone.
NegSpan == 12
OverSpan == 3
FarZone == 999
ZoneInputs == ((0 - NegSpan)..(125 + OverSpan)) \cup {FarZone}

\* print(s): s and a newline go to standard output; a newline inside s
\* ends a line as well
print(out, s) == out \o SplitLines(s)

\* The module has been executed: the table is built, nothing is printed or
\* called yet. It runs either as a script or as an imported module.
Init ==
    /\ name \in {"__main__", "keyboard_mapping_util"}
    /\ table = ZONE_TO_KEY
    /\ pc = IF name = "__main__" THEN "title" ELSE "imported"
    /\ it = 0
    /\ stdout = <<>>
    /\ lastCall = <<>>
    /\ genRet = <<>>

\* get_key_label written with setdefault: a missing zone_id is stored in
\* the table with its fallback label
CallGetKeyLabel_setdefault ==
    /\ pc = "imported"
    /\ \E zone_id \in ZoneInputs :
        /\ lastCall' = <<zone_id, get_key_label(table, zone_id)>>
        /\ table' = IF DictHas(table, zone_id) THEN table
                    ELSE DictSet(table, zone_id, ZonePrefix \o IntStr(zone_id))
    /\ UNCHANGED <<name, pc, it, stdout, genRet>>

\* A caller of the imported module calls get_key_label(zone_id).
CallGetKeyLabel ==
    /\ pc = "imported"
    /\ \E zone_id \in ZoneInputs :
        lastCall' = <<zone_id, get_key_label(table, zone_id)>>
    /\ UNCHANGED <<name, table, pc, it, stdout, genRet>>

\* A caller of the imported module calls generate_keyboard_layout_code().
CallGenerate ==
    /\ pc = "imported"
    /\ genRet' = <<generate_keyboard_layout_code(table)>>
    /\ UNCHANGED <<name, table, pc, it, stdout, lastCall>>

\* the loop left one item early
LoopOrAfter_early(tbl, n) == IF n < Len(tbl) - 1 THEN "entry" ELSE "total"

\* pc after the for statement asks the items iterator for its next item
LoopOrAfter(tbl, n) == IF n < Len(tbl) THEN "entry" ELSE "total"

PrintTitle ==
    /\ pc = "title"
    /\ stdout' = print(stdout, TitleLine)
    /\ pc' = "note"
    /\ UNCHANGED <<name, table, it, lastCall, genRet>>

PrintNote ==
    /\ pc = "note"
    /\ stdout' = print(stdout, NoteLine)
    /\ pc' = "blank"
    /\ UNCHANGED <<name, table, it, lastCall, genRet>>

PrintBlank ==
    /\ pc = "blank"
    /\ stdout' = print(stdout, <<>>)
    /\ pc' = LoopOrAfter(table, it)
    /\ UNCHANGED <<name, table, it, lastCall, genRet>>

\* One pass of "for zone, key in ZONE_TO_KEY.items()": the next item is
\* taken and its line printed.
PrintEntry ==
    /\ pc = "entry"
    /\ stdout' = print(stdout, EntryLine(table[it + 1][1], table[it + 1][2]))
    /\ it' = it + 1
    /\ pc' = LoopOrAfter(table, it + 1)
    /\ UNCHANGED <<name, table, lastCall, genRet>>

PrintTotal ==
    /\ pc = "total"
    /\ stdout' = print(stdout, TotalText(table))
    /\ pc' = "unused"
    /\ UNCHANGED <<name, table, it, lastCall, genRet>>

PrintUnused ==
    /\ pc = "unused"
    /\ stdout' = print(stdout, UnusedText(table))
    /\ pc' = "done"
    /\ UNCHANGED <<name, table, it, lastCall, genRet>>

Report ==
    \/ PrintTitle
    \/ PrintNote
    \/ PrintBlank
    \/ PrintEntry
    \/ PrintTotal
    \/ PrintUnused

Next ==
    \/ CallGetKeyLabel
    \/ CallGenerate
    \/ Report

Spec == Init /\ [][Next]_vars

\* The interpreter keeps executing the script body until it ends.
FairSpec == Spec /\ WF_vars(Report)

\* =============================================================== claims

\* s is the canonical decimal numeral of an integer: an optional "-", then
\* digits with no leading zero ("0" itself excepted, and no "-0")
IsDecimal(s) ==
    LET d == IF s # <<>> /\ s[1] = 45 THEN Tail(s) ELSE s
    IN /\ d # <<>>
       /\ \A i \in 1..Len(d) : d[i] \in 48..57
       /\ (d[1] = 48 => d = <<48>> /\ d = s)

\* value of a digit string
RECURSIVE DigitsValue(_)
DigitsValue(d) ==
    IF d = <<>> THEN 0
    ELSE 10 * DigitsValue(SubSeq(d, 1, Len(d) - 1)) + (d[Len(d)] - 48)

\* value of a decimal numeral
DecimalValue(s) ==
    IF s[1] = 45 THEN 0 - DigitsValue(Tail(s)) ELSE DigitsValue(s)

\* label is "Zone " followed by the decimal numeral of some integer
IsZoneForm(label) ==
    /\ Len(label) > 5
    /\ SubSeq(label, 1, 5) = <<90, 111, 110, 101, 32>>
    /\ IsDecimal(SubSeq(label, 6, Len(label)))

\* label is "Zone " followed by the decimal numeral of n
IsZoneFormOf(label, n) ==
    IsZoneForm(label) /\ DecimalValue(SubSeq(label, 6, Len(label))) = n

\* the keys of a table
Keys(tbl) == {tbl[i][1] : i \in 1..Len(tbl)}

\* C1: a get_key_label call whose zone_id is a key of the zone table returns
\* exactly the label stored for that key; zone 70 gives "z", zone 53 gives
\* "o-umlaut" (U+00F6).
C1_StoredLabel ==
    lastCall # <<>> /\ lastCall[1] \in Keys(table) =>
        /\ \E i \in 1..Len(table) : table[i] = lastCall
        /\ \E i \in 1..Len(ZoneDisplay) : ZoneDisplay[i] = lastCall
        /\ (lastCall[1] = 70 => lastCall[2] = <<122>>)
        /\ (lastCall[1] = 53 => lastCall[2] = <<246>>)

C1_Witness == lastCall = <<53, <<246>>>>

\* C2: a get_key_label call whose zone_id is not a key of the zone table
\* (negative, or beyond the largest key) returns "Zone " followed by the
\* decimal numeral of zone_id: "Zone 999" for 999, "Zone -1" for -1,
\* "Zone 126" for 126.
C2_Fallback ==
    lastCall # <<>> /\ lastCall[1] \notin Keys(table) =>
        /\ IsZoneFormOf(lastCall[2], lastCall[1])
        /\ (lastCall[1] = 999 =>
              lastCall[2] = <<90, 111, 110, 101, 32, 57, 57, 57>>)
        /\ (lastCall[1] = 0 - 1 =>
              lastCall[2] = <<90, 111, 110, 101, 32, 45, 49>>)
        /\ (lastCall[1] = 126 =>
              lastCall[2] = <<90, 111, 110, 101, 32, 49, 50, 54>>)

C2_Witness ==
    /\ lastCall # <<>>
    /\ lastCall[1] = 0 - 10
    /\ lastCall[2] = <<90, 111, 110, 101, 32, 45, 49, 48>>

\* C3: the zone table has no repeated zone_id, exactly 126 entries, and its
\* keys are exactly 0..125; the source display itself lists 126 items.
C3_TableKeys ==
    /\ Len(table) = 126
    /\ Len(ZoneDisplay) = 126
    /\ \A i, j \in 1..Len(table) : table[i][1] = table[j][1] => i = j
    /\ Keys(table) = 0..125

\* the report's loop has walked the whole table: 126 items
C3_Witness == pc = "total" /\ it = 126 /\ Len(table) = it

\* the text between the first and the last double quote of line
Quoted(line) ==
    LET Q == {i \in 1..Len(line) : line[i] = 34}
        lo == CHOOSE i \in Q : \A j \in Q : i <= j
        hi == CHOOSE i \in Q : \A j \in Q : j <= i
    IN IF Cardinality(Q) < 2 THEN <<>> ELSE SubSeq(line, lo + 1, hi - 1)

\* 'zoneId = currentZone++;'
AssignStmt ==
    <<122, 111, 110, 101, 73, 100, 32, 61, 32, 99, 117, 114, 114, 101, 110,
      116, 90, 111, 110, 101, 43, 43, 59>>

\* 'createKeyButton('
ButtonCall ==
    <<99, 114, 101, 97, 116, 101, 75, 101, 121, 66, 117, 116, 116, 111, 110, 40>>

\* C4: the text generate_keyboard_layout_code returns has exactly 36 lines;
\* for each zone k of 0..17, in ascending order, line 2k+1 is the zoneId
\* assignment and line 2k+2 a createKeyButton call whose quoted text is
\* exactly get_key_label(k) ("Space" for zone 7, "Right Alt" for zone 10);
\* no zone from 18 on has a line.
C4_GeneratedLines ==
    genRet # <<>> =>
        LET L == SplitLines(genRet[1])
        IN /\ Len(L) = 36
           /\ \A k \in 0..17 :
                /\ Contains(L[2 * k + 1], AssignStmt)
                /\ ~Contains(L[2 * k + 1], ButtonCall)
                /\ Contains(L[2 * k + 2], ButtonCall)
                /\ Quoted(L[2 * k + 2]) = get_key_label(table, k)
           /\ Quoted(L[16]) = <<83, 112, 97, 99, 101>>
           /\ Quoted(L[22]) = <<82, 105, 103, 104, 116, 32, 65, 108, 116>>

C4_Witness ==
    /\ genRet # <<>>
    /\ Len(SplitLines(genRet[1])) = 36
    /\ Quoted(SplitLines(genRet[1])[36]) =
          <<78, 117, 109, 112, 97, 100, 32, 44>>   \* "Numpad ,", zone 17

\* C5 as claimed: line 1 of the generated text contains
\* 'zoneId = currentZone++;' and line 2 contains
\* 'createKeyButton( 0, "Left Ctrl", row, col );'.
C5_AsClaimed ==
    genRet # <<>> =>
        LET L == SplitLines(genRet[1])
        IN /\ Contains(L[1], AssignStmt)
           /\ Contains(L[2],
                <<99, 114, 101, 97, 116, 101, 75, 101, 121, 66, 117, 116,
                  116, 111, 110, 40, 32, 48, 44, 32, 34, 76, 101, 102, 116,
                  32, 67, 116, 114, 108, 34, 44, 32, 114, 111, 119, 44, 32,
                  99, 111, 108, 32, 41, 59>>)

\* 'createKeyButton( zoneId, "Left Ctrl", row, col );'
FirstButtonStmt ==
    <<99, 114, 101, 97, 116, 101, 75, 101, 121, 66, 117, 116, 116, 111, 110,
      40, 32, 122, 111, 110, 101, 73, 100, 44, 32, 34, 76, 101, 102, 116, 32,
      67, 116, 114, 108, 34, 44, 32, 114, 111, 119, 44, 32, 99, 111, 108, 32,
      41, 59>>

\* C5 amended: line 1 of the generated text contains
\* 'zoneId = currentZone++;' and line 2, right after it, contains
\* 'createKeyButton( zoneId, "Left Ctrl", row, col );': the first argument
\* is the identifier zoneId, not the number of the zone.
C5_FirstTwoLines ==
    genRet # <<>> =>
        LET L == SplitLines(genRet[1])
        IN /\ Contains(L[1], AssignStmt)
           /\ Contains(L[2], FirstButtonStmt)

C5_Witness ==
    /\ genRet # <<>>
    /\ SplitLines(genRet[1])[2] = <<32, 32>> \o FirstButtonStmt

\* "Unused/Unknown"
UnusedUnknown ==
    <<85, 110, 117, 115, 101, 100, 47, 85, 110, 107, 110, 111, 119, 110>>

\* number of table entries whose label is exactly "Unused/Unknown"
ExactUnused(tbl) ==
    Cardinality({i \in 1..Len(tbl) : tbl[i][2] = UnusedUnknown})

\* "Unused zones: "
UnusedLinePrefix ==
    <<85, 110, 117, 115, 101, 100, 32, 122, 111, 110, 101, 115, 58, 32>>

\* C6: no label of the zone table contains "Unused" without being exactly
\* "Unused/Unknown", and the number on the report's "Unused zones" line is
\* the number of entries whose label is exactly "Unused/Unknown".
C6_UnusedCount ==
    /\ \A i \in 1..Len(table) :
          Contains(table[i][2], <<85, 110, 117, 115, 101, 100>>)
              => table[i][2] = UnusedUnknown
    /\ (pc = "done" =>
          LET last == stdout[Len(stdout)]
              num == SubSeq(last, Len(UnusedLinePrefix) + 1, Len(last))
          IN /\ SubSeq(last, 1, Len(UnusedLinePrefix)) = UnusedLinePrefix
             /\ IsDecimal(num)
             /\ DecimalValue(num) = ExactUnused(table))

\* the report has printed "Unused zones: 24"
C6_Witness ==
    /\ pc = "done"
    /\ stdout[Len(stdout)] = UnusedLinePrefix \o <<50, 52>>

\* line is "  Zone <zone_id>: <label>" for the table item <<zone_id, label>>
IsEntryOf(line, item) ==
    /\ Len(line) >= 10
    /\ SubSeq(line, 1, 7) = <<32, 32, 90, 111, 110, 101, 32>>
    /\ \E c \in 9..(Len(line) - 1) :
          /\ line[c] = 58
          /\ line[c + 1] = 32
          /\ \A j \in 8..(c - 1) : line[j] # 58
          /\ IsDecimal(SubSeq(line, 8, c - 1))
          /\ DecimalValue(SubSeq(line, 8, c - 1)) = item[1]
          /\ SubSeq(line, c + 2, Len(line)) = item[2]

\* "Total mapped zones: "
TotalLinePrefix ==
    <<84, 111, 116, 97, 108, 32, 109, 97, 112, 112, 101, 100, 32, 122, 111,
      110, 101, 115, 58, 32>>

\* line is prefix followed by the decimal numeral of n
IsCountLine(line, prefix, n) ==
    /\ Len(line) > Len(prefix)
    /\ SubSeq(line, 1, Len(prefix)) = prefix
    /\ IsDecimal(SubSeq(line, Len(prefix) + 1, Len(line)))
    /\ DecimalValue(SubSeq(line, Len(prefix) + 1, Len(line))) = n

\* What is on standard output at any moment is the beginning of: the two
\* header lines, a blank line, one entry line for each table item with
\* strictly ascending zone_id, a blank line, the total line giving the
\* number of entry lines, the unused line; all of it at the end, when
\* nothing more is printed.
ReportShape ==
    LET N == Len(table)
    IN /\ Len(stdout) <= N + 6
       /\ \A j \in 1..Len(stdout) :
            /\ (j = 1 => stdout[j] = TitleLine)
            /\ (j = 2 => stdout[j] = NoteLine)
            /\ (j = 3 => stdout[j] = <<>>)
            /\ (j \in 4..(N + 3) =>
                  /\ IsEntryOf(stdout[j], table[j - 3])
                  /\ (j > 4 => table[j - 4][1] < table[j - 3][1]))
            /\ (j = N + 4 => stdout[j] = <<>>)
            /\ (j = N + 5 =>
                  IsCountLine(stdout[j], TotalLinePrefix,
                      Cardinality({i \in 1..(j - 1) :
                          \E e \in 1..N : IsEntryOf(stdout[i], table[e])})))
            /\ (j = N + 6 =>
                  \E n \in 0..N : IsCountLine(stdout[j], UnusedLinePrefix, n))
       /\ (pc = "done" <=> Len(stdout) = N + 6)
       /\ (pc = "done" => ~ENABLED Next)
       /\ (name # "__main__" => stdout = <<>>)

\* C7: run as a script, the report prints, in this order, the two header
\* lines, a blank line, one "  Zone <zone_id>: <label>" line per table
\* entry with zone_id strictly ascending, a blank line, the total line and
\* the unused line; no entry line comes after the total line, the total is
\* the number of entry lines printed, and the report ends.
C7_ReportOrder == []ReportShape /\ ((name = "__main__") ~> (pc = "done"))

\* the whole report is out: 3 + 126 + 3 lines, "Total mapped zones: 126"
C7_Witness ==
    /\ pc = "done"
    /\ Len(stdout) = 132
    /\ stdout[131] = TotalLinePrefix \o <<49, 50, 54>>

\* C8: no call of get_key_label or generate_keyboard_layout_code and no
\* step of the report changes the zone table, so every result is the one
\* the table as built gives for that argument: two calls with the same
\* zone_id, or two calls of the generator, return the same text whatever
\* happens in between.
C8_Frame ==
    /\ table = ZONE_TO_KEY
    /\ (lastCall # <<>> =>
          lastCall[2] = get_key_label(ZONE_TO_KEY, lastCall[1]))
    /\ (genRet # <<>> => genRet[1] = generate_keyboard_layout_code(ZONE_TO_KEY))

\* both functions have been called, get_key_label last with a zone that is
\* not in the table
C8_Witness ==
    /\ genRet # <<>>
    /\ lastCall # <<>>
    /\ lastCall[1] = 126
    /\ table = ZONE_TO_KEY

\* labels tried in place of the label of a zone outside the generator's range
AltLabels == {<<88>>, <<90, 111, 110, 101, 32, 48>>}

\* C9: every zone of 0..17 is a key of the zone table, so no createKeyButton
\* line of the generated text embeds a fallback label "Zone <n>"; and the
\* generated text depends on the entries of zones 0..17 only: with the label
\* of any zone from 18 on changed (or such a zone added), the generator
\* returns the same text.
C9_GeneratorRange ==
    /\ \A k \in 0..17 : k \in Keys(table)
    /\ (genRet # <<>> =>
          /\ \A i \in 1..Len(SplitLines(genRet[1])) :
                ~IsZoneForm(Quoted(SplitLines(genRet[1])[i]))
          /\ \A z \in 18..(125 + OverSpan) : \A alt \in AltLabels :
                generate_keyboard_layout_code(DictSet(table, z, alt)) = genRet[1])

\* the generator has run and zone 18, "Down Arrow", is not in its text
C9_Witness ==
    /\ genRet # <<>>
    /\ get_key_label(table, 18) = <<68, 111, 119, 110, 32, 65, 114, 114, 111, 119>>
    /\ ~Contains(genRet[1], <<68, 111, 119, 110, 32, 65, 114, 114, 111, 119>>)

\* C10: no label of the zone table has the form "Zone <integer>", so the
\* result of get_key_label(zone_id) has the form "Zone <zone_id>" exactly
\* when zone_id is not a key of the table.
C10_Distinguishable ==
    /\ \A i \in 1..Len(table) : ~IsZoneForm(table[i][2])
    /\ (lastCall # <<>> =>
          /\ (IsZoneFormOf(lastCall[2], lastCall[1])
                <=> lastCall[1] \notin Keys(table))
          /\ (IsZoneForm(lastCall[2]) <=> lastCall[1] \notin Keys(table)))

\* the last zone of the table has been looked up and its label is no fallback
C10_Witness ==
    /\ lastCall # <<>>
    /\ lastCall[1] = 125
    /\ ~IsZoneForm(lastCall[2])

====
